---------------------------- MODULE Spec2Model ----------------------------
(***************************************************************************)
(* The SQP query responder of lib/svrsample/protocol/sqp/sqp.go.           *)
(*                                                                         *)
(* A QueryResponder holds a sync.Map of challenge tokens keyed by client   *)
(* address and a query-state snapshot.  Respond(clientAddress, buf)        *)
(* classifies the datagram, issues a token for a challenge request and     *)
(* consumes the token for a query.                                         *)
(*                                                                         *)
(* Spec     handles one datagram at a time: one action per call of Respond.*)
(* ConcSpec runs Respond on several goroutines; a call is split at its one *)
(*          access to the shared map, which sync.Map makes atomic.         *)
(*                                                                         *)
(* Integers of the model stay below 2^31, so the tokens of the model are   *)
(* uint32 values whose first byte is below 128.                            *)
(***************************************************************************)
EXTENDS Integers, Sequences, FiniteSets, TLC

VARIABLES
    challenges,  \* q.challenges: the set of <<address, token>> entries
    state,       \* q.state, abstracted to the Size() of its ServerInfo
    hist,        \* per address: the last challenge or query packet handled
    last,        \* the last call of Respond that ended, and how it ended
    procs        \* ConcSpec: the call each goroutine is in

vars == <<challenges, state, hist, last, procs>>

------------------------------------------------------------------------------
(* Bounds and input sets *)

\* longest datagram the model hands to Respond
MaxLen == 8

Addrs == {"A", "B"}

\* values rand.Uint32() returns in the model: 0x01020304 and 0x04030201
Tokens == {16909060, 67305985}

\* sqp versions a query packet of the model carries
Versions == {1, 2, 257}

\* requested-chunks bitmasks a query packet of the model carries
Chunks == {0, 1, 254, 255}

\* values ServerInfo.Size() returns in the model
Sizes == {10, 65533}

Goroutines == {"g1", "g2"}

------------------------------------------------------------------------------
(* Bytes *)

\* encoding of a uint16 in network byte order
BE16(v) == << (v \div 256) % 256, v % 256 >>

\* encoding of a uint32 in network byte order
BE32(v) ==
    << v \div 16777216, (v \div 65536) % 256, (v \div 256) % 256, v % 256 >>

\* binary.BigEndian.Uint16
Uint16(s) == s[1] * 256 + s[2]

\* binary.BigEndian.Uint32
Uint32(s) == s[1] * 16777216 + s[2] * 65536 + s[3] * 256 + s[4]

\* uint16(x): conversion of a uint32 to uint16
ToUint16(x) == x % 65536

------------------------------------------------------------------------------
(* Buffers.  A []byte is its backing array from the slice's start up to    *)
(* its capacity, and its length: the bytes past the length are whatever    *)
(* the caller's buffer held before the datagram was read into it.          *)

Cap(buf) == Len(buf.arr)

\* buf[lo:hi] is legal when 0 <= lo <= hi <= cap(buf), and panics otherwise
SliceOK(buf, lo, hi) == lo <= hi /\ hi <= Cap(buf)

\* buf[i] is legal when i < len(buf), and panics otherwise
IndexOK(buf, i) == i < buf.len

\* buf[lo:hi]
Slice(buf, lo, hi) == SubSeq(buf.arr, lo + 1, hi)

\* buf[i]
Index(buf, i) == buf.arr[i + 1]

\* s followed by trailing bytes, up to one byte more than MaxLen
Pad(s) == s \o [i \in 1..(MaxLen + 1 - Len(s)) |-> 7]

\* a query packet: header 1, challenge, version, chunk bitmask, trailing bytes
QueryPacket(c, v, k) == Pad(<<1>> \o BE32(c) \o BE16(v) \o <<k>>)

\* the token the query packets of every version and bitmask carry
FirstToken == CHOOSE c \in Tokens : \A d \in Tokens : c <= d

\* the byte arrays datagrams are cut from: a challenge request, two
\* unsupported packets, and query packets carrying each token
Arrays ==
    { Pad(<<0, 0, 0, 0, 0>>), Pad(<<0, 0, 0, 0, 1>>), Pad(<<2, 0, 0, 0, 0>>) }
    \cup { QueryPacket(c, 1, 0) : c \in Tokens }
    \cup { QueryPacket(FirstToken, 1, k) : k \in Chunks }
    \cup { QueryPacket(FirstToken, v, 1) : v \in Versions }

\* the datagrams of the model: every prefix of an array, in a buffer of
\* exactly its length, and the prefixes shorter than 5 bytes also in a
\* buffer of capacity 5 that still holds the array's next bytes
Packets ==
    { [arr |-> SubSeq(a, 1, n), len |-> n] : a \in Arrays, n \in 0..MaxLen }
    \cup { [arr |-> SubSeq(a, 1, 5), len |-> n] : a \in Arrays, n \in 0..4 }

------------------------------------------------------------------------------
(* q.challenges, a sync.Map: a set of <<key, value>> entries *)

\* the values stored under key k
Load(m, k) == { e[2] : e \in { x \in m : x[1] = k } }

\* a Store that leaves the entry k held
MapStoreAdd(m, k, v) == m \cup { <<k, v>> }

\* a Store that replaces the whole map
MapStoreOnly(m, k, v) == { <<k, v>> }

\* sync.Map.Store(k, v): v replaces what k held
MapStore(m, k, v) == { e \in m : e[1] # k } \cup { <<k, v>> }

\* a Load in place of the LoadAndDelete: the entry stays
MapKeep(m, k) == m

\* the map sync.Map.LoadAndDelete(k) leaves
MapDelete(m, k) == { e \in m : e[1] # k }

\* a lookup whose ok flag is dropped
LoadedUnchecked(m, k) ==
    [value |-> IF Load(m, k) = {} THEN 0 ELSE CHOOSE t \in Load(m, k) : TRUE,
     ok |-> TRUE]

\* a lookup that ignores its key
LoadedAnyKey(m, k) ==
    IF m = {} THEN [value |-> 0, ok |-> FALSE]
    ELSE [value |-> (CHOOSE e \in m : TRUE)[2], ok |-> TRUE]

\* the value and the ok flag sync.Map.LoadAndDelete(k) returns
Loaded(m, k) ==
    IF Load(m, k) = {} THEN [value |-> 0, ok |-> FALSE]
    ELSE [value |-> CHOOSE t \in Load(m, k) : TRUE, ok |-> TRUE]

------------------------------------------------------------------------------
(* Wire formats *)

ZeroServerInfo == [set |-> FALSE, size |-> 0]

\* QueryStateToServerInfo(q.state)
QueryStateToServerInfo(st) == [set |-> TRUE, size |-> st]

\* ServerInfo.Size()
Size(si) == si.size

\* what Respond returns with an error: no bytes
NilResp == [bytes |-> <<>>, block |-> 0]

\* common.WireWrite of a challengeWireFormat
WireWriteChallenge(f) ==
    [bytes |-> <<f.Header>> \o BE32(f.Challenge), block |-> 0]

\* common.WireWrite of a queryWireFormat: the fixed fields in declaration
\* order, then the server-info block, of which the model keeps the length
WireWriteQuery(f) ==
    [bytes |-> <<f.Header>> \o BE32(f.Challenge) \o BE16(f.SQPVersion)
                 \o <<f.CurrentPacketNum, f.LastPacketNum>>
                 \o BE16(f.PayloadLength) \o BE32(f.ServerInfoLength),
     block |-> IF f.ServerInfo.set THEN Size(f.ServerInfo) ELSE 0]

\* number of bytes of a response
RespLen(r) == Len(r.bytes) + r.block

------------------------------------------------------------------------------
(* Respond and its handlers *)

\* isChallenge, called with cap(buf) >= 5
isChallenge(buf) == Slice(buf, 0, 5) = <<0, 0, 0, 0, 0>>

\* a test for any non-zero header in place of header 1
isQueryNonZero(buf) == Index(buf, 0) # 0

\* isQuery, called with len(buf) >= 1
isQuery(buf) == Index(buf, 0) = 1

\* the switch of Respond: the handler it reaches, or the panic of a slice
\* or index expression out of range
Dispatch(buf) ==
    IF ~SliceOK(buf, 0, 5) THEN "panic"
    ELSE IF isChallenge(buf) THEN "challenge"
    ELSE IF ~IndexOK(buf, 0) THEN "panic"
    ELSE IF isQuery(buf) THEN "query"
    ELSE "unsupported"

\* an error returned together with bytes
FailWithBytes(msg) ==
    [resp |-> [bytes |-> <<1>>, block |-> 0], err |-> msg, got |-> -1,
     consulted |-> FALSE]

\* return nil, errors.New(msg)
Fail(msg) == [resp |-> NilResp, err |-> msg, got |-> -1, consulted |-> FALSE]

\* a response built from a second random value
ChallengeResultOther(v) ==
    [resp |-> WireWriteChallenge(
                 [Header |-> 0,
                  Challenge |-> CHOOSE t \in Tokens : t # v]),
     err |-> "", got |-> -1, consulted |-> FALSE]

\* handleChallenge after the Store: the response for token v
ChallengeResult(v) ==
    [resp |-> WireWriteChallenge([Header |-> 0, Challenge |-> v]),
     err |-> "", got |-> -1, consulted |-> FALSE]

\* a test of the whole bitmask in place of bit 0
WantsAnyChunk(requestedChunks) == requestedChunks # 0

\* requestedChunks&0x1 == 1
WantsServerInfo(requestedChunks) == requestedChunks % 2 = 1

\* a queryWireFormat whose SQPVersion is left unset
QueryFormatNoVersion(expectedChallenge, wantsServerInfo, st) ==
    [Header |-> 1, Challenge |-> expectedChallenge, SQPVersion |-> 0,
     CurrentPacketNum |-> 0, LastPacketNum |-> 0,
     PayloadLength |-> IF wantsServerInfo
                       THEN (ToUint16(st) + 4) % 65536 ELSE 0,
     ServerInfoLength |-> IF wantsServerInfo THEN st ELSE 0,
     ServerInfo |-> IF wantsServerInfo THEN QueryStateToServerInfo(st)
                    ELSE ZeroServerInfo]

\* the queryWireFormat handleQuery builds
QueryFormat(expectedChallenge, wantsServerInfo, st) ==
    LET info == IF wantsServerInfo THEN QueryStateToServerInfo(st)
                ELSE ZeroServerInfo
        infoLen == IF wantsServerInfo THEN Size(info) ELSE 0
    IN  [Header |-> 1, Challenge |-> expectedChallenge, SQPVersion |-> 1,
         CurrentPacketNum |-> 0, LastPacketNum |-> 0,
         PayloadLength |-> IF wantsServerInfo
                           THEN (ToUint16(infoLen) + 4) % 65536 ELSE 0,
         ServerInfoLength |-> infoLen,
         ServerInfo |-> info]

\* handleQuery with the version checked before the challenge
QueryResultVersionFirst(expectedChallenge, ok, buf, st) ==
    IF ~ok THEN Fail("no challenge")
    ELSE IF buf.len < 8 THEN Fail("packet not long enough")
    ELSE IF Uint16(Slice(buf, 5, 7)) # 1
        THEN [Fail("unsupported sqp version") EXCEPT !.got = Index(buf, 6)]
    ELSE IF Uint32(Slice(buf, 1, 5)) # expectedChallenge
        THEN Fail("challenge mismatch")
    ELSE LET f == QueryFormat(expectedChallenge,
                              WantsServerInfo(Index(buf, 7)), st)
         IN  [resp |-> WireWriteQuery(f), err |-> "", got |-> -1,
              consulted |-> f.ServerInfo.set]

\* handleQuery after the LoadAndDelete returned (expectedChallenge, ok)
QueryResult(expectedChallenge, ok, buf, st) ==
    IF ~ok THEN Fail("no challenge")
    ELSE IF buf.len < 8 THEN Fail("packet not long enough")
    ELSE IF Uint32(Slice(buf, 1, 5)) # expectedChallenge
        THEN Fail("challenge mismatch")
    ELSE IF Uint16(Slice(buf, 5, 7)) # 1
        THEN [Fail("unsupported sqp version") EXCEPT !.got = Index(buf, 6)]
    ELSE LET requestedChunks == Index(buf, 7)
             wantsServerInfo == WantsServerInfo(requestedChunks)
             f == QueryFormat(expectedChallenge, wantsServerInfo, st)
         IN  [resp |-> WireWriteQuery(f), err |-> "", got |-> -1,
              consulted |-> f.ServerInfo.set]

------------------------------------------------------------------------------
(* History *)

\* the errors of handleQuery's checks of the packet
PacketErrors ==
    {"packet not long enough", "challenge mismatch", "unsupported sqp version"}

NoHist == [kind |-> "none", tok |-> 0, old |-> {}]

\* hist[a] is the last packet from a that reached handleChallenge (with the
\* token it stored) or handleQuery.  Outstanding: the token a challenge
\* request from the address stored, no query packet from the address having
\* been handled since.  old: the outstanding token that challenge request
\* found.
Outstanding(h) == IF h.kind = "challenge" THEN {h.tok} ELSE {}

\* the record of a call: its arguments, its result, and what held before
\* it: stored, the tokens q.challenges held for the address; pre and old,
\* from hist; repeat, the call before it was the same query and succeeded;
\* prevFailed, the token the address held when the call before it, a query
\* from the same address, failed a check of the packet
Ended(a, buf, r) ==
    [addr |-> a, buf |-> buf, kind |-> Dispatch(buf), resp |-> r.resp,
     err |-> r.err, got |-> r.got, consulted |-> r.consulted,
     stored |-> Load(challenges, a),
     pre |-> Outstanding(hist[a]), old |-> hist[a].old,
     repeat |-> /\ last.kind = "query" /\ last.err = ""
                /\ last.addr = a /\ last.buf = buf,
     prevFailed |-> IF /\ last.kind = "query" /\ last.addr = a
                       /\ last.err \in PacketErrors
                    THEN last.stored ELSE {}]

NoBuf == [arr |-> <<>>, len |-> 0]

\* a goroutine that has not called Respond yet.  other is history: what
\* the other goroutines did to q.challenges under this call's address since
\* the call began: "store" if one stored, else "load" if one loaded and
\* deleted, else "none"
IdleProc ==
    [pc |-> "idle", addr |-> "A", buf |-> NoBuf, v |-> 0, ok |-> FALSE,
     seen |-> {}, other |-> "none", res |-> Fail("")]

------------------------------------------------------------------------------
(* Spec: one datagram at a time *)

Init ==
    /\ challenges = {}
    /\ state \in Sizes
    /\ hist = [a \in Addrs |-> NoHist]
    /\ last = [addr |-> "A", buf |-> NoBuf, kind |-> "init",
               resp |-> NilResp, err |-> "", got |-> -1, consulted |-> FALSE,
               stored |-> {}, pre |-> {}, old |-> {}, repeat |-> FALSE,
               prevFailed |-> {}]
    /\ procs = [g \in Goroutines |-> IdleProc]

\* Respond panics in isChallenge or isQuery
RespondPanic(a, buf) ==
    /\ Dispatch(buf) = "panic"
    /\ last' = Ended(a, buf, Fail("panic"))
    /\ UNCHANGED <<challenges, state, hist, procs>>

\* Respond -> handleChallenge
RespondChallenge(a, buf) ==
    /\ Dispatch(buf) = "challenge"
    /\ \E v \in Tokens :
        /\ challenges' = MapStore(challenges, a, v)
        /\ hist' = [hist EXCEPT ![a] = [kind |-> "challenge", tok |-> v,
                                         old |-> Outstanding(hist[a])]]
        /\ last' = Ended(a, buf, ChallengeResult(v))
    /\ UNCHANGED <<state, procs>>

\* Respond -> handleQuery
RespondQuery(a, buf) ==
    /\ Dispatch(buf) = "query"
    /\ LET ld == Loaded(challenges, a)
       IN  /\ challenges' = MapDelete(challenges, a)
           /\ last' = Ended(a, buf, QueryResult(ld.value, ld.ok, buf, state))
    /\ hist' = [hist EXCEPT ![a] = [kind |-> "query", tok |-> 0, old |-> {}]]
    /\ UNCHANGED <<state, procs>>

\* Respond -> "unsupported query"
RespondUnsupported(a, buf) ==
    /\ Dispatch(buf) = "unsupported"
    /\ last' = Ended(a, buf, Fail("unsupported query"))
    /\ UNCHANGED <<challenges, state, hist, procs>>

Next ==
    \E a \in Addrs, buf \in Packets :
        \/ RespondPanic(a, buf)
        \/ RespondChallenge(a, buf)
        \/ RespondQuery(a, buf)
        \/ RespondUnsupported(a, buf)

Spec == Init /\ [][Next]_vars

------------------------------------------------------------------------------
(* ConcSpec: Respond on concurrent goroutines.  A call reads and writes    *)
(* only its own locals but for one Store or LoadAndDelete on q.challenges. *)

\* the datagrams the goroutines are handed
ConcPackets ==
    { [arr |-> <<0, 0, 0, 0, 0>>, len |-> 5],
      [arr |-> <<0, 0, 0, 0, 0, 7, 7, 7>>, len |-> 8],
      [arr |-> <<2, 0, 0, 0, 0>>, len |-> 5],
      [arr |-> <<1>>, len |-> 1] }
    \cup { [arr |-> SubSeq(QueryPacket(c, 1, 0), 1, 8), len |-> 8] : c \in Tokens }

ConcInit == Init /\ state = 10

Returned(p, r) == [p EXCEPT !.pc = "idle", !.res = r]

\* procs after goroutine g, now in state mine, made the access what to
\* q.challenges under address a: the calls of the others for a note it
Accessed(g, a, what, mine) ==
    [h \in Goroutines |->
        IF h = g THEN mine
        ELSE IF procs[h].buf # NoBuf /\ procs[h].addr = a
            THEN [procs[h] EXCEPT
                    !.other = IF @ = "store" \/ what = "store"
                              THEN "store" ELSE "load"]
        ELSE procs[h]]

\* Respond is called: the switch picks the handler
Call(g, a, buf) ==
    /\ procs[g].pc = "idle"
    /\ LET p == [IdleProc EXCEPT !.addr = a, !.buf = buf]
           d == Dispatch(buf)
       IN  procs' = [procs EXCEPT ![g] =
               IF d = "panic" THEN Returned(p, Fail("panic"))
               ELSE IF d = "unsupported" THEN Returned(p, Fail("unsupported query"))
               ELSE IF d = "challenge" THEN [p EXCEPT !.pc = "handleChallenge"]
               ELSE [p EXCEPT !.pc = "handleQuery"]]
    /\ UNCHANGED <<challenges, state, hist, last>>

\* handleChallenge: v := rand.Uint32(); q.challenges.Store(clientAddress, v)
StoreStep(g) ==
    /\ procs[g].pc = "handleChallenge"
    /\ \E v \in Tokens :
        LET a == procs[g].addr
        IN  /\ challenges' = MapStore(challenges, a, v)
            /\ hist' = [hist EXCEPT ![a] = [kind |-> "challenge", tok |-> v,
                                             old |-> Outstanding(hist[a])]]
            /\ procs' = Accessed(g, a, "store",
                                   [procs[g] EXCEPT !.pc = "stored", !.v = v])
    /\ UNCHANGED <<state, last>>

\* handleChallenge: the response is encoded and returned
ReturnChallenge(g) ==
    /\ procs[g].pc = "stored"
    /\ procs' = [procs EXCEPT ![g] = Returned(procs[g], ChallengeResult(procs[g].v))]
    /\ UNCHANGED <<challenges, state, hist, last>>

\* handleQuery: q.challenges.LoadAndDelete(clientAddress)
LoadAndDeleteStep(g) ==
    /\ procs[g].pc = "handleQuery"
    /\ LET a == procs[g].addr
           ld == Loaded(challenges, a)
       IN  /\ challenges' = MapDelete(challenges, a)
           /\ hist' = [hist EXCEPT ![a] = [kind |-> "query", tok |-> 0, old |-> {}]]
           /\ procs' = Accessed(g, a, "load",
                                  [procs[g] EXCEPT !.pc = "loaded",
                                                   !.v = ld.value, !.ok = ld.ok,
                                                   !.seen = Outstanding(hist[a])])
    /\ UNCHANGED <<state, last>>

\* handleQuery: the checks, the response, the return
ReturnQuery(g) ==
    /\ procs[g].pc = "loaded"
    /\ procs' = [procs EXCEPT ![g] =
           Returned(procs[g],
                    QueryResult(procs[g].v, procs[g].ok, procs[g].buf, state))]
    /\ UNCHANGED <<challenges, state, hist, last>>

ConcNext ==
    \E g \in Goroutines :
        \/ \E a \in Addrs, buf \in ConcPackets : Call(g, a, buf)
        \/ StoreStep(g)
        \/ ReturnChallenge(g)
        \/ LoadAndDeleteStep(g)
        \/ ReturnQuery(g)

ConcSpec == ConcInit /\ [][ConcNext]_vars

------------------------------------------------------------------------------
(* Properties of Spec.  They read the record of the last call.             *)

\* fields of the last call's datagram, read as handleQuery reads them
LastChallenge == Uint32(Slice(last.buf, 1, 5))
LastVersion == Uint16(Slice(last.buf, 5, 7))
LastChunks == Index(last.buf, 7)
LastIsFullQuery == last.kind = "query" /\ last.buf.len >= 8
NoBytes == RespLen(last.resp) = 0

\* C1 (single-use token): a query of length >= 8 from an address whose
\* challenge request stored T and that sent no challenge or query packet
\* since, carrying T and version 1, returns a non-empty response and no
\* error; the same call made again right after it fails with "no challenge"
\* and returns no bytes.
C1_SingleUse ==
    /\ (LastIsFullQuery /\ last.pre = {LastChallenge} /\ LastVersion = 1)
          => (last.err = "" /\ RespLen(last.resp) > 0)
    /\ last.repeat => (last.err = "no challenge" /\ NoBytes)

C1_Witness ==
    /\ last.repeat /\ LastIsFullQuery /\ LastVersion = 1
    /\ last.err = "no challenge" /\ NoBytes

\* C2 (anti-spoofing gate): a query that returns a response was preceded by
\* a challenge request from the same address that stored the token the query
\* carries, with no query packet and no later challenge request from the
\* address in between; a query from an address with no stored token fails
\* with "no challenge".
C2_Gate ==
    /\ (last.kind = "query" /\ last.err = "") => last.pre = {LastChallenge}
    /\ (last.kind = "query" /\ last.stored = {}) => last.err = "no challenge"

C2_Witness ==
    /\ last.kind = "query" /\ last.err = "" /\ last.pre = {LastChallenge}
    /\ RespLen(last.resp) > 0

\* C3 (one token per address): q.challenges holds at most one token per
\* address; after a challenge request it holds the new token alone; and a
\* query of length >= 8 carrying the token T1 that a challenge request
\* replaced by T2 # T1 fails with "challenge mismatch".
C3_OneToken ==
    /\ \A a \in Addrs : Cardinality(Load(challenges, a)) <= 1
    /\ \A a \in Addrs :
          hist[a].kind = "challenge" => Load(challenges, a) = {hist[a].tok}
    /\ (LastIsFullQuery /\ LastChallenge \in last.old
          /\ LastChallenge \notin last.pre)
          => last.err = "challenge mismatch"

C3_Witness ==
    /\ LastIsFullQuery /\ LastChallenge \in last.old
    /\ LastChallenge \notin last.pre /\ last.err = "challenge mismatch"
    /\ Load(challenges, last.addr) = {}

\* C4 (response suppression): whenever Respond returns one of the errors
\* "no challenge", "packet not long enough", "challenge mismatch",
\* "unsupported query", "unsupported sqp version", it returns no bytes; a
\* query whose challenge differs from the stored token returns an error and
\* no bytes.
C4_Suppression ==
    /\ last.err \in {"no challenge", "packet not long enough",
                      "challenge mismatch", "unsupported query",
                      "unsupported sqp version"} => NoBytes
    /\ (LastIsFullQuery /\ last.stored # {} /\ LastChallenge \notin last.stored)
          => (last.err # "" /\ NoBytes)

C4_Witness ==
    /\ LastIsFullQuery /\ last.stored # {} /\ LastChallenge \notin last.stored
    /\ last.err = "challenge mismatch" /\ NoBytes

\* C5 (length guard): every packet of length 1..7 whose first byte is 1 makes
\* Respond return "packet not long enough", whatever the address holds, and
\* Respond does not panic.
C5_LengthGuard ==
    (last.kind # "init" /\ last.buf.len \in 1..7 /\ Index(last.buf, 0) = 1)
        => last.err = "packet not long enough"

\* C6 (classifier defensiveness): on a buffer shorter than 5 bytes Respond
\* does not panic, issues no token and returns an error.
C6_ShortBuffer ==
    (last.kind # "init" /\ last.buf.len < 5)
        => (last.kind \notin {"panic", "challenge"} /\ last.err # "")

\* C7 (version gate): a query of length >= 8 carrying the stored token and a
\* version v # 1 fails with "unsupported sqp version" reporting v, and returns
\* no bytes; with v = 1 the version check passes.
C7_VersionGate ==
    (LastIsFullQuery /\ last.stored = {LastChallenge})
        => IF LastVersion # 1
           THEN /\ last.err = "unsupported sqp version"
                /\ last.got = LastVersion
                /\ NoBytes
           ELSE last.err # "unsupported sqp version"

\* fields of the last call's response, read at their offsets in the wire
\* layout
RespPayloadLength == Uint16(SubSeq(last.resp.bytes, 10, 11))
RespServerInfoLength == Uint32(SubSeq(last.resp.bytes, 12, 15))
LastSucceededQuery == last.kind = "query" /\ last.err = ""

\* C9 (server-info payload length): a successful query with bit 0 of the
\* chunk bitmask set has serverInfoLength = Size() and payloadLength =
\* Size() + 4.
C9_PayloadLength ==
    (LastSucceededQuery /\ LastChunks % 2 = 1)
        => /\ RespServerInfoLength = state
           /\ RespPayloadLength = state + 4

\* C10 (server info only on request): a successful query with bit 0 of the
\* chunk bitmask clear has serverInfoLength = 0, payloadLength = 0, an empty
\* server-info block, and q.state is not converted; the server info is
\* built iff bit 0 is set.
C10_InfoOnRequest ==
    LastSucceededQuery
        => /\ LastChunks % 2 = 0
                => /\ RespServerInfoLength = 0 /\ RespPayloadLength = 0
                   /\ last.resp.block = 0 /\ RespLen(last.resp) = 15
                   /\ ~last.consulted
           /\ last.consulted <=> LastChunks % 2 = 1

C10_Witness ==
    /\ LastSucceededQuery /\ LastChunks = 254
    /\ RespLen(last.resp) = 15 /\ ~last.consulted

------------------------------------------------------------------------------
(* Properties of ConcSpec *)

\* the goroutine that takes the step
Stepped(g) ==
    [procs'[g] EXCEPT !.other = "none"] # [procs[g] EXCEPT !.other = "none"]

\* C8 (concurrent independence): the token a query from an address consumes
\* is the one the most recent challenge request from that address stored,
\* and the query finds none iff no such token is outstanding; a step of a
\* call for another address leaves the tokens of the address unchanged.
C8_Independence ==
    [][ /\ \A g \in Goroutines :
            procs'[g].pc = "loaded"
                => procs'[g].seen = IF procs'[g].ok THEN {procs'[g].v} ELSE {}
        /\ \A g \in Goroutines, a \in Addrs :
            (Stepped(g) /\ procs'[g].addr # a)
                => Load(challenges', a) = Load(challenges, a) ]_vars

C8_Witness ==
    \E g, h \in Goroutines :
        /\ procs[g].pc = "loaded" /\ procs[g].ok
        /\ procs[g].seen = {procs[g].v}
        /\ procs[h].pc = "stored" /\ procs[h].addr # procs[g].addr
        /\ procs[h].v # procs[g].v

------------------------------------------------------------------------------
(* Further properties of Spec *)

\* C11 (unsupported packets): a packet of length >= 5 whose first five bytes
\* are not all zero and whose first byte is not 1 makes Respond fail with
\* "unsupported query", return no bytes and leave q.challenges as it was.
C11_Unsupported ==
    [][ ( /\ last'.buf.len >= 5
          /\ Slice(last'.buf, 0, 5) # <<0, 0, 0, 0, 0>>
          /\ Index(last'.buf, 0) # 1 )
        => ( /\ last'.err = "unsupported query"
             /\ RespLen(last'.resp) = 0
             /\ challenges' = challenges ) ]_vars

C11_Witness ==
    /\ last.buf.len >= 5 /\ Slice(last.buf, 0, 5) # <<0, 0, 0, 0, 0>>
    /\ Index(last.buf, 0) # 1
    /\ last.err = "unsupported query" /\ NoBytes
    /\ last.stored # {} /\ Load(challenges, last.addr) = last.stored

------------------------------------------------------------------------------
(* Further properties of ConcSpec *)

ZeroPrefixed(buf) == buf.len >= 5 /\ Slice(buf, 0, 5) = <<0, 0, 0, 0, 0>>

\* the token a challenge response carries
RespToken(r) == Uint32(SubSeq(r.resp.bytes, 2, 5))

\* C12 (challenge step): a packet whose first five bytes are zero, with or
\* without trailing bytes and whatever is stored, reaches handleChallenge,
\* which stores a token T for the address and returns five bytes, header 0
\* and T; if meanwhile no other goroutine touched q.challenges under the
\* address, T is the token stored for it when the call returns.
C12_ChallengeStep ==
    [][ \A g \in Goroutines :
        /\ (Stepped(g) /\ procs[g].pc = "idle" /\ ZeroPrefixed(procs'[g].buf))
              => procs'[g].pc = "handleChallenge"
        /\ (procs[g].pc = "handleChallenge" /\ procs'[g].pc = "stored")
              => Load(challenges', procs[g].addr) = {procs'[g].v}
        /\ (procs[g].pc = "stored" /\ procs'[g].pc = "idle")
              => /\ procs'[g].res.err = ""
                 /\ Len(procs'[g].res.resp.bytes) = 5
                 /\ procs'[g].res.resp.block = 0
                 /\ procs'[g].res.resp.bytes[1] = 0
                 /\ RespToken(procs'[g].res) = procs[g].v
                 /\ procs'[g].other = "none"
                      => Load(challenges', procs[g].addr)
                           = {RespToken(procs'[g].res)} ]_vars

C12_Witness ==
    \E g, h \in Goroutines :
        /\ procs[g].pc = "idle" /\ ZeroPrefixed(procs[g].buf)
        /\ procs[g].buf.len > 5 /\ procs[g].res.err = ""
        /\ procs[g].other = "none"
        /\ Load(challenges, procs[g].addr) = {RespToken(procs[g].res)}
        /\ hist[procs[g].addr].old # {}
        /\ procs[h].pc = "loaded" /\ procs[h].addr # procs[g].addr

------------------------------------------------------------------------------
(* Further properties of Spec, continued *)

\* C13 (attempted consumption destroys the token): after a query packet from
\* an address that held a token is handled, the address holds none, whether
\* the query succeeded or failed with "packet not long enough", "challenge
\* mismatch" or "unsupported sqp version"; a query of length >= 8 and
\* version 1 carrying that token, sent right after such a failure, fails
\* with "no challenge".
C13_Destroyed ==
    /\ (last.kind = "query" /\ last.stored # {})
          => /\ Load(challenges, last.addr) = {}
             /\ last.err \in PacketErrors \cup {""}
    /\ (LastIsFullQuery /\ LastChallenge \in last.prevFailed /\ LastVersion = 1)
          => (last.err = "no challenge" /\ NoBytes)

C13_Witness ==
    /\ LastIsFullQuery /\ LastChallenge \in last.prevFailed /\ LastVersion = 1
    /\ last.err = "no challenge" /\ last.stored = {}

\* C14 (validation order): a query is checked for a stored token, then for
\* its length, then for its challenge, then for its version, and the first
\* check that fails gives the error.
C14_Order ==
    last.kind = "query"
        => last.err =
             IF last.stored = {} THEN "no challenge"
             ELSE IF last.buf.len < 8 THEN "packet not long enough"
             ELSE IF LastChallenge \notin last.stored THEN "challenge mismatch"
             ELSE IF LastVersion # 1 THEN "unsupported sqp version"
             ELSE ""

C14_Witness ==
    /\ LastIsFullQuery /\ last.stored # {} /\ LastChallenge \notin last.stored
    /\ LastVersion # 1 /\ last.err = "challenge mismatch"

------------------------------------------------------------------------------
(* Consumption under concurrency, response fields, frame *)

\* goroutine g is in, or has returned from, a query call that has done its
\* LoadAndDelete
QueryLoaded(g) ==
    \/ procs[g].pc = "loaded"
    \/ procs[g].pc = "idle" /\ Dispatch(procs[g].buf) = "query"

\* C15 (atomic consumption): of two query calls for one address, during
\* neither of which a challenge request stored a token for the address, at
\* most one finds the token; a call returns a query response only if it
\* found the token, and one that found none fails with "no challenge".
C15_AtomicConsume ==
    /\ \A g, h \in Goroutines :
          ( /\ g # h /\ QueryLoaded(g) /\ QueryLoaded(h)
            /\ procs[g].addr = procs[h].addr
            /\ procs[g].other # "store" /\ procs[h].other # "store" )
          => ~(procs[g].ok /\ procs[h].ok)
    /\ \A g \in Goroutines :
          (procs[g].pc = "idle" /\ Dispatch(procs[g].buf) = "query")
          => /\ procs[g].res.err = "" => procs[g].ok
             /\ ~procs[g].ok =>
                   /\ procs[g].res.err = "no challenge"
                   /\ RespLen(procs[g].res.resp) = 0

C15_Witness ==
    \E g, h \in Goroutines :
        /\ g # h /\ procs[g].pc = "idle" /\ procs[h].pc = "idle"
        /\ procs[g].addr = procs[h].addr /\ procs[g].buf = procs[h].buf
        /\ Dispatch(procs[g].buf) = "query"
        /\ procs[g].other = "load" /\ procs[h].other = "load"
        /\ procs[g].res.err = "" /\ RespLen(procs[g].res.resp) > 0
        /\ procs[h].res.err = "no challenge"

\* C16 (successful query response fields): a query response has header 1,
\* the challenge that was stored for the address and that the query carries,
\* version 1, currentPacketNum 0 and lastPacketNum 0.
C16_ResponseFields ==
    LastSucceededQuery
        => /\ last.resp.bytes[1] = 1
           /\ {Uint32(SubSeq(last.resp.bytes, 2, 5))} = last.stored
           /\ Uint32(SubSeq(last.resp.bytes, 2, 5)) = LastChallenge
           /\ Uint16(SubSeq(last.resp.bytes, 6, 7)) = 1
           /\ last.resp.bytes[8] = 0
           /\ last.resp.bytes[9] = 0

C16_Witness ==
    /\ LastSucceededQuery /\ last.resp.bytes[1] = 1
    /\ {Uint32(SubSeq(last.resp.bytes, 2, 5))} = last.stored
    /\ Uint16(SubSeq(last.resp.bytes, 6, 7)) = 1 /\ LastChunks = 255

\* C17 (frame and retention): a call of Respond changes the tokens stored
\* for an address only if it is a challenge request or a query packet from
\* that address; tokens stay stored otherwise, so every address that asked
\* for a challenge and never queried holds one.
C17_Frame ==
    [][ \A a \in Addrs :
          (last'.addr # a \/ last'.kind \notin {"challenge", "query"})
              => Load(challenges', a) = Load(challenges, a) ]_vars

C17_Witness ==
    /\ \A a \in Addrs : Load(challenges, a) # {}
    /\ last.kind = "unsupported"
    /\ \E a \in Addrs :
          a # last.addr /\ Load(challenges, a) # Load(challenges, last.addr)

------------------------------------------------------------------------------
(* Termination *)

\* the next step of the call goroutine g is in
ProcStep(g) ==
    \/ StoreStep(g)
    \/ ReturnChallenge(g)
    \/ LoadAndDeleteStep(g)
    \/ ReturnQuery(g)

\* a goroutine that is scheduled runs: no step of a call is put off forever
FairConcSpec == ConcSpec /\ \A g \in Goroutines : WF_vars(ProcStep(g))

\* every call of Respond ends, by a return or by a panic
CallsEnd ==
    \A g \in Goroutines : (procs[g].pc # "idle") ~> (procs[g].pc = "idle")

\* C18 (termination): a call in flight can always take its next step,
\* whatever the other calls do, and a call that has ended has returned
\* response bytes or an error.
C18_Returns ==
    \A g \in Goroutines :
        /\ procs[g].pc # "idle" => ENABLED ProcStep(g)
        /\ procs[g].pc = "idle" => procs[g].res.err # "panic"

==============================================================================
